---- MODULE Spec2Model ----
(***************************************************************************)
(* State-machine model of xmigrate: Migration (src/xmigrate/main.py) and   *)
(* XMLMapper (src/xmigrate/xml_mapper.py).                                 *)
(*                                                                         *)
(* The source XNAT server is a tree project -> subject -> experiment ->    *)
(* {scan, assessor}.  Every subject, experiment and assessor has one       *)
(* owning project and may be shared into the other project.  The walker    *)
(* (Migration.run) processes the project pairs one after another, creates  *)
(* the owned resources on the destination, records sharing, and applies    *)
(* the sharing at the end of the run.                                      *)
(***************************************************************************)
EXTENDS Integers, Sequences, FiniteSets, TLC

(***************************************************************************)
(* Bounds of the model.                                                    *)
(***************************************************************************)
NSubjects == 2      \* subjects on the source server
NExperiments == 1   \* experiments per subject
NScans == 1         \* scans per experiment
NAssessors == 1     \* assessors per experiment
MaxShared == 3      \* resources shared into a second project
MaxMissing == 1     \* subjects that lack an experiment
MaxGrantFailures == 1  \* sharing requests the destination rejects in one run
MaxStale == 1       \* reads of a destination listing that miss a new resource
MaxRuns == 2        \* calls of Migration.run on one Migration object
MaxRefs == 2        \* reference tags in one record given to map_xml
MaxModalities == 2  \* xnat:modality children of one record given to map_xml
MaxUriLen == 3      \* path tokens of one URI given to map_xml
MaxUris == 1        \* URI attributes of one record given to map_xml

(***************************************************************************)
(* Python values.                                                          *)
(***************************************************************************)
None == "None"
EmptyDict == [key \in {} |-> None]

SourceProjects == {"A", "B"}
\* the run configurations: the lists of source project identifiers
SourceLists == {<<"A", "B">>, <<"A">>}
\* the destination project identifier configured for a source project
DestinationOf(p) == "D" \o p
OtherProject(p) == IF p = "A" THEN "B" ELSE "A"

(***************************************************************************)
(* Identifiers and labels of the source resources.  Identifiers are        *)
(* server-wide accession identifiers; scan identifiers are numbered per    *)
(* experiment.  Labels differ from identifiers.                            *)
(***************************************************************************)
SubjectIdx == 1..NSubjects
ExperimentIdx == SubjectIdx \X (1..NExperiments)
ScanIdx == SubjectIdx \X (1..NExperiments) \X (1..NScans)
AssessorIdx == SubjectIdx \X (1..NExperiments) \X (1..NAssessors)

SubjectId(i) == "s" \o ToString(i)
ExperimentId(i, j) == "e" \o ToString(i) \o ToString(j)
ScanId(k) == ToString(k)
AssessorId(i, j, k) == "a" \o ToString(i) \o ToString(j) \o ToString(k)
SubjectLabel(i) == "L" \o ToString(i)
ExperimentLabel(i, j) == "EL" \o ToString(i) \o ToString(j)
AssessorLabel(i, j, k) == "AL" \o ToString(i) \o ToString(j) \o ToString(k)

XnatType == {"project", "subject", "experiment", "scan", "assessor", "reconstruction"}

\* XMLMapper.ids_to_map: the id_map partition a resource type is stored in
ids_to_map_own_partition(map_type) == map_type
ids_to_map(map_type) == IF map_type = "assessor" THEN "experiment" ELSE map_type

\* XMLMapper.tags_to_remap: the reference tags and the type they refer to
tags_to_remap ==
  [t \in {"icr:subjectID", "xnat:subject_ID", "xnat:image_session_ID",
          "xnat:imageSession_ID", "xnat:session_id", "xnat:scanID",
          "xnat:imageScan_ID"} |->
     IF t \in {"icr:subjectID", "xnat:subject_ID"} THEN "subject"
     ELSE IF t \in {"xnat:scanID", "xnat:imageScan_ID"} THEN "scan"
     ELSE "experiment"]

VARIABLES
  all_source_info,       \* Migration.all_source_info: source project ids
  all_destination_info,  \* Migration.all_destination_info: destination ids
  rsync_only,            \* Migration.rsync_only
  source,                \* content of the source server
  pc,                    \* position of Migration.run
  pair,                  \* position of the loop over the project pairs
  cur,                   \* self.mapper / self.source_info / self.destination_info
  walk,                  \* the listings of the current source project, in loop order
  step,                  \* position of the tree walk of the current pair
  id_map,                \* id_map of every mapper: mapper -> partition -> dict
  subject_sharing,       \* dict label -> sharing_info, in insertion order
  experiment_sharing,
  assessor_sharing,
  subj_failed_count,
  exp_failed_count,
  scan_failed_count,
  assess_failed_count,
  destination,           \* content of the destination server
  posts,                 \* create (POST) calls issued to the destination
  grants,                \* sharing (PUT) calls issued to the destination
  error,                 \* the exception that left Migration.run, or None
  run,                   \* number of the current call of Migration.run
  apply_sharing_calls,   \* calls of Migration._apply_sharing so far
  xml_call               \* a call of XMLMapper.map_xml: arguments and result

vars == <<all_source_info, all_destination_info, rsync_only, source, pc, pair, cur, walk, step,
          id_map,
          subject_sharing, experiment_sharing, assessor_sharing,
          subj_failed_count, exp_failed_count, scan_failed_count,
          assess_failed_count, destination, posts, grants, error, run,
          apply_sharing_calls, xml_call>>

(***************************************************************************)
(* The source server.                                                      *)
(***************************************************************************)
\* an experiment slot of the tree may be empty: owner None
Ownership == [owner : SourceProjects \cup {None}, shared : BOOLEAN]

\* a subject is listed under its owner and, when shared, under the other project
SubjectIn(src, p, i) == src.subject[i].owner = p \/ src.subject[i].shared
ExperimentIn(src, p, i, j) ==
  /\ SubjectIn(src, p, i)
  /\ src.experiment[<<i, j>>].owner = p \/ src.experiment[<<i, j>>].shared
AssessorIn(src, p, i, j, k) ==
  /\ ExperimentIn(src, p, i, j)
  /\ src.assessor[<<i, j, k>>].owner = p \/ src.assessor[<<i, j, k>>].shared

SharedCount(src) ==
  Cardinality({i \in SubjectIdx : src.subject[i].shared})
  + Cardinality({e \in ExperimentIdx : src.experiment[e].shared})
  + Cardinality({a \in AssessorIdx : src.assessor[a].shared})

\* XNAT keeps labels unique within a project, and a resource lives in a
\* project only together with its parent
ValidSubjects(s) ==
  \A p \in SourceProjects : \A i, j \in SubjectIdx :
    (i # j /\ (s[i].owner = p \/ s[i].shared) /\ (s[j].owner = p \/ s[j].shared))
      => s[i].label # s[j].label
ValidExperiments(s, e) ==
  \A x \in ExperimentIdx :
    IF e[x].owner = None THEN ~e[x].shared
    ELSE /\ e[x].owner # s[x[1]].owner => s[x[1]].shared
         /\ e[x].shared => s[x[1]].shared
\* the assessors of an empty experiment slot are empty too
ValidAssessors(e, a) ==
  \A x \in AssessorIdx :
    IF e[<<x[1], x[2]>>].owner = None THEN a[x].owner = None /\ ~a[x].shared
    ELSE /\ a[x].owner # None
         /\ a[x].owner # e[<<x[1], x[2]>>].owner => e[<<x[1], x[2]>>].shared
         /\ a[x].shared => e[<<x[1], x[2]>>].shared

SubjectChoices ==
  {s \in [SubjectIdx -> [owner : SourceProjects, shared : BOOLEAN,
                         label : {SubjectLabel(1)} \cup {SubjectLabel(i) : i \in SubjectIdx}]] :
     /\ \A i \in SubjectIdx : s[i].label \in {SubjectLabel(1), SubjectLabel(i)}
     /\ ValidSubjects(s)}

MissingCount(e) == Cardinality({x \in ExperimentIdx : e[x].owner = None})
ExperimentChoices(s) ==
  {e \in [ExperimentIdx -> Ownership] : ValidExperiments(s, e) /\ MissingCount(e) <= MaxMissing}
AssessorChoices(e) == {a \in [AssessorIdx -> Ownership] : ValidAssessors(e, a)}

\* the content of the source server
InitSource ==
  \E s \in SubjectChoices : \E e \in ExperimentChoices(s) : \E a \in AssessorChoices(e) :
    /\ SharedCount([subject |-> s, experiment |-> e, assessor |-> a]) <= MaxShared
    /\ source = [subject |-> s, experiment |-> e, assessor |-> a]

(***************************************************************************)
(* Python dicts that are iterated (the sharing tables) keep their          *)
(* insertion order: a sequence of [key, value] entries with distinct keys. *)
(***************************************************************************)
DictHas(d, k) == \E n \in 1..Len(d) : d[n].key = k
DictGet(d, k, default) ==
  IF DictHas(d, k) THEN d[CHOOSE n \in 1..Len(d) : d[n].key = k].value ELSE default
DictSet(d, k, v) ==
  IF DictHas(d, k)
    THEN [n \in 1..Len(d) |-> IF d[n].key = k THEN [key |-> k, value |-> v] ELSE d[n]]
    ELSE Append(d, [key |-> k, value |-> v])

RECURSIVE Concat(_, _)
\* f[1] \o f[2] \o ... \o f[n]
Concat(f, n) == IF n = 0 THEN <<>> ELSE Concat(f, n - 1) \o f[n]

(***************************************************************************)
(* ProjectInfo of the two servers.                                         *)
(***************************************************************************)
SourceInfo(p) ==
  [id |-> p, secondary_id |-> None, project_name |-> None, archive_path |-> "src_archive"]
DestinationInfo(p) ==
  [id |-> DestinationOf(p), secondary_id |-> DestinationOf(p),
   project_name |-> DestinationOf(p), archive_path |-> "dst_archive"]

(***************************************************************************)
(* URIs are strings, modelled as sequences of path tokens; `in` and        *)
(* str.replace(count=1) work on contiguous subsequences.                   *)
(***************************************************************************)
OccursAt(s, sub, n) ==
  /\ n + Len(sub) - 1 <= Len(s)
  /\ \A m \in 1..Len(sub) : s[n + m - 1] = sub[m]
Contains(s, sub) == \E n \in 1..Len(s) : OccursAt(s, sub, n)
ReplaceFirst(s, sub, by) ==
  LET n == CHOOSE n \in 1..Len(s) :
             OccursAt(s, sub, n) /\ \A m \in 1..(n - 1) : ~OccursAt(s, sub, m)
  IN SubSeq(s, 1, n - 1) \o by \o SubSeq(s, n + Len(sub), Len(s))

\* XMLMapper.rewrite_uris on one URI attribute: the new URI, or ValueError
rewrite_uris(uri, source_path, destination_path) ==
  IF ~Contains(uri, source_path)
    THEN [error |-> "ValueError", uri |-> uri]
    ELSE [error |-> None, uri |-> ReplaceFirst(uri, source_path, destination_path)]

(***************************************************************************)
(* XML elements.  attrib: the attributes of the root element; name: text   *)
(* of the xnat:name child (projects); modalities: texts of the             *)
(* xnat:modality children; children: the child collections present;       *)
(* refs: text of every direct child that is a reference tag; uris: the URI *)
(* attributes of the file / out file / resource children.                  *)
(***************************************************************************)
tags_to_delete == {"xnat:experiments", "xnat:scans", "xnat:assessors",
                   "xnat:reconstructions", "xnat:prearchivePath", "xnat:sharing"}

modality_to_scan_by_code(m) ==
  CASE m = "MR" -> "xnat:MRScan"
    [] m = "CT" -> "xnat:CTScan"
    [] m = "US" -> "xnat:USScan"
    [] m = "PT" -> "xnat:PTScan"
    [] m = "NM" -> "xnat:NMScan"
    [] OTHER -> "xnat:OtherDicomScan"
modality_to_scan(m) ==
  CASE m = "MR" -> "xnat:MRScan"
    [] m = "CT" -> "xnat:CTScan"
    [] m = "US" -> "xnat:USScan"
    [] m = "PT" -> "xnat:PETScan"
    [] m = "NM" -> "xnat:NMScan"
    [] OTHER -> "xnat:OtherDicomScan"

KeepingAttribute(f, k) == f
Without(f, k) == [x \in (DOMAIN f) \ {k} |-> f[x]]
With(f, k, v) == [x \in (DOMAIN f) \cup {k} |-> IF x = k THEN v ELSE f[x]]

\* the partition of idm a reference tag is looked up in
RemapDict(idm, tag) == idm[ids_to_map(tags_to_remap[tag])]

\* map_xml, "Remap specific tags": every reference tag gets the entry of its
\* text; a text without entry raises ValueError
remap_tags_keeping_unmapped(idm, refs) ==
  [error |-> None,
   refs |-> [t \in DOMAIN refs |->
               IF refs[t] \in DOMAIN RemapDict(idm, t)
                 THEN RemapDict(idm, t)[refs[t]] ELSE refs[t]]]
remap_tags(idm, refs) ==
  IF \A t \in DOMAIN refs : refs[t] \in DOMAIN RemapDict(idm, t)
    THEN [error |-> None, refs |-> [t \in DOMAIN refs |-> RemapDict(idm, t)[refs[t]]]]
    ELSE [error |-> "ValueError", refs |-> refs]

\* XMLMapper.map_xml: idm is self.id_map, src / dst are self.source and
\* self.destination.  The result carries the error raised, if any.
map_xml(idm, src, dst, element, resource_type) ==
  LET a1 == IF resource_type = "project"
              THEN With(With(element.attrib, "ID", dst.id), "secondary_ID", dst.secondary_id)
              ELSE element.attrib
      name1 == IF resource_type = "project" /\ element.name # None
                 THEN dst.project_name ELSE element.name
      a2 == IF resource_type \in {"project", "scan"} THEN a1 ELSE Without(a1, "ID")
      a3 == With(a2, "project", dst.id)
      nonempty == SelectSeq(element.modalities, LAMBDA m : m # "")
      tag1 == IF element.tag = "xnat:imageScanData"
                THEN IF Len(nonempty) = 1 THEN modality_to_scan(nonempty[1])
                     ELSE "xnat:OtherDicomScan"
                ELSE element.tag
      children1 == element.children \ tags_to_delete
      remapped == remap_tags(idm, element.refs)
      source_path == <<src.archive_path, src.id>>
      destination_path == <<dst.archive_path, dst.id>>
      rewritten == [n \in 1..Len(element.uris) |->
                      rewrite_uris(element.uris[n], source_path, destination_path)]
      uris_ok == \A n \in 1..Len(element.uris) : rewritten[n].error = None
  IN IF remapped.error # None THEN [error |-> remapped.error, element |-> element]
     ELSE IF ~uris_ok THEN [error |-> "ValueError", element |-> element]
     ELSE [error |-> None,
           element |-> [tag |-> tag1, attrib |-> a3, name |-> name1,
                        modalities |-> element.modalities, children |-> children1,
                        refs |-> remapped.refs,
                        uris |-> [n \in 1..Len(element.uris) |-> rewritten[n].uri]]]

\* the order in which map_xml visits the reference tags
RemapOrder == <<"icr:subjectID", "xnat:subject_ID", "xnat:image_session_ID",
                "xnat:imageSession_ID", "xnat:session_id", "xnat:scanID",
                "xnat:imageScan_ID">>
\* the first reference tag, in that order, whose text has no entry; 0 if none
FirstUnmapped(idm, refs) ==
  LET bad == {n \in 1..Len(RemapOrder) :
                /\ RemapOrder[n] \in DOMAIN refs
                /\ refs[RemapOrder[n]] \notin DOMAIN RemapDict(idm, RemapOrder[n])}
  IN IF bad = {} THEN 0 ELSE CHOOSE n \in bad : \A o \in bad : n <= o
\* the first URI that does not contain the source path; 0 if none
FirstForeign(uris, source_path) ==
  LET bad == {n \in 1..Len(uris) : ~Contains(uris[n], source_path)}
  IN IF bad = {} THEN 0 ELSE CHOOSE n \in bad : \A o \in bad : n <= o

\* XMLMapper.map_xml works on the element it is given: the content of that
\* element after the call.  When the call raises, the rules applied before
\* the failing tag or URI have taken effect.
map_xml_in_place(idm, src, dst, element, resource_type) ==
  LET result == map_xml(idm, src, dst, element, resource_type)
      head == map_xml(idm, src, dst,
                      [element EXCEPT !.refs = EmptyDict, !.uris = <<>>],
                      resource_type).element
      stop == FirstUnmapped(idm, element.refs)
      Visited(t) == \E n \in 1..Len(RemapOrder) :
                      RemapOrder[n] = t /\ (stop = 0 \/ n < stop)
      refs == [t \in DOMAIN element.refs |->
                 IF Visited(t) THEN RemapDict(idm, t)[element.refs[t]]
                 ELSE element.refs[t]]
      source_path == <<src.archive_path, src.id>>
      destination_path == <<dst.archive_path, dst.id>>
      foreign == FirstForeign(element.uris, source_path)
      uris == [n \in 1..Len(element.uris) |->
                 IF stop = 0 /\ (foreign = 0 \/ n < foreign)
                   THEN rewrite_uris(element.uris[n], source_path, destination_path).uri
                   ELSE element.uris[n]]
  IN IF result.error = None THEN result.element
     ELSE [head EXCEPT !.refs = refs, !.uris = uris]

\* XMLMapper.update_id_map
update_id_map_by_type(idm, source_id, destination_id, map_type) ==
  [idm EXCEPT ![ids_to_map(map_type)] = With(@, map_type, destination_id)]
update_id_map(idm, source_id, destination_id, map_type) ==
  [idm EXCEPT ![ids_to_map(map_type)] = With(@, source_id, destination_id)]

(***************************************************************************)
(* Records served by the source server (Migration._get_source_xml).        *)
(***************************************************************************)
Element(tag, attrib, children, refs, uris) ==
  [tag |-> tag, attrib |-> attrib, name |-> None, modalities |-> <<>>,
   children |-> children, refs |-> refs, uris |-> uris]

ProjectXml(p, uris) ==
  [Element("xnat:Project", [ID |-> p, secondary_ID |-> p], {}, EmptyDict, uris)
     EXCEPT !.name = p]
SubjectXml(src, i, uris) ==
  Element("xnat:Subject",
          [ID |-> SubjectId(i), project |-> src.subject[i].owner, label |-> src.subject[i].label],
          {"xnat:experiments", "xnat:sharing"}, EmptyDict, uris)
ExperimentXml(src, i, j, uris) ==
  Element("xnat:MRSession",
          [ID |-> ExperimentId(i, j), project |-> src.experiment[<<i, j>>].owner,
           label |-> ExperimentLabel(i, j)],
          {"xnat:scans", "xnat:assessors", "xnat:sharing"},
          [t \in {"xnat:subject_ID"} |-> SubjectId(i)], uris)
ScanXml(src, i, j, k, uris) ==
  [Element("xnat:imageScanData",
           [ID |-> ScanId(k), project |-> src.experiment[<<i, j>>].owner],
           {}, [t \in {"xnat:image_session_ID"} |-> ExperimentId(i, j)], uris)
     EXCEPT !.modalities = <<"MR">>]
AssessorXml(src, i, j, k, uris) ==
  Element("xnat:QCAssessment",
          [ID |-> AssessorId(i, j, k), project |-> src.assessor[<<i, j, k>>].owner,
           label |-> AssessorLabel(i, j, k)],
          {"xnat:sharing"}, [t \in {"xnat:imageSession_ID"} |-> ExperimentId(i, j)], uris)

(***************************************************************************)
(* What the two servers do during one creation step.  A step meets at most *)
(* one fault, since the first fault ends it:                               *)
(*   ok           every request succeeds                                   *)
(*   unsupported  the destination does not list the experiment's datatype  *)
(*   fetch_error  the source server rejects the GET of the record          *)
(*   foreign_uri  the record has a file URI outside the project's archive  *)
(*   post_error   the destination rejects the POST                         *)
(*   stale        the destination listing misses the new resource once     *)
(*   stale_twice  ... and again when it is read the second time            *)
(***************************************************************************)
Responses == {"ok", "unsupported", "fetch_error", "foreign_uri", "post_error",
              "stale", "stale_twice"}

\* the URI attributes of the record fetched from the project of info
UrisOf(env, info) ==
  IF env = "foreign_uri" THEN <<(<<"elsewhere", "file">>)>>
  ELSE <<(<<info.archive_path, info.id, "file">>)>>

(***************************************************************************)
(* The tree walk of Migration._create_resources for source project p: the  *)
(* creation steps in the order of the nested loops over the listings.      *)
(***************************************************************************)
Step(kind, i, j, k) == [kind |-> kind, i |-> i, j |-> j, k |-> k]

ScanSteps(src, p, i, j) ==
  Concat([k \in 1..NScans |-> <<Step("scan", i, j, k)>>], NScans)
AssessorSteps(src, p, i, j) ==
  Concat([k \in 1..NAssessors |->
            IF AssessorIn(src, p, i, j, k) THEN <<Step("assessor", i, j, k)>> ELSE <<>>],
         NAssessors)
ExperimentSteps(src, p, i) ==
  Concat([j \in 1..NExperiments |->
            IF ExperimentIn(src, p, i, j)
              THEN <<Step("experiment", i, j, 0)>> \o ScanSteps(src, p, i, j)
                     \o AssessorSteps(src, p, i, j)
              ELSE <<>>],
         NExperiments)
WalkOrder(src, p) ==
  Concat([i \in 1..NSubjects |->
            IF SubjectIn(src, p, i)
              THEN <<Step("subject", i, 0, 0)>> \o ExperimentSteps(src, p, i)
              ELSE <<>>],
         NSubjects)

(***************************************************************************)
(* The destination server.                                                 *)
(***************************************************************************)
EmptyDestination ==
  [projects |-> {}, subjects |-> {}, experiments |-> {}, scans |-> {},
   assessors |-> {}, next |-> 1]
\* the identifier the destination server assigns to the next created resource
NewId(d) == "X" \o ToString(d.next)

NoCall == [element |-> None, id_map |-> None, resource_type |-> None, result |-> None,
           after |-> None]

NumMappers == IF Len(all_source_info) <= Len(all_destination_info)
                THEN Len(all_source_info) ELSE Len(all_destination_info)

\* Migration.__post_init__
Init ==
  \* the two lists are given separately and may differ in length
  /\ \E l \in SourceLists, d \in SourceLists :
       /\ all_source_info = [n \in 1..Len(l) |-> SourceInfo(l[n])]
       /\ all_destination_info = [n \in 1..Len(d) |-> DestinationInfo(d[n])]
  /\ rsync_only \in BOOLEAN
  /\ InitSource
  /\ pc = "run"
  /\ pair = 1
  /\ cur = [mapper |-> 1, source_info |-> all_source_info[1],
            destination_info |-> all_destination_info[1]]
  /\ walk = <<>>
  /\ step = 0
  /\ id_map = [m \in 1..NumMappers |-> [t \in XnatType |-> EmptyDict]]
  /\ subject_sharing = <<>>
  /\ experiment_sharing = <<>>
  /\ assessor_sharing = <<>>
  /\ subj_failed_count = 0
  /\ exp_failed_count = 0
  /\ scan_failed_count = 0
  /\ assess_failed_count = 0
  /\ destination = EmptyDestination
  /\ posts = <<>>
  /\ grants = <<>>
  /\ error = None
  /\ run = 1
  /\ apply_sharing_calls = 0
  /\ xml_call = NoCall

(***************************************************************************)
(* Migration.run and the steps it calls.                                   *)
(***************************************************************************)
config == <<all_source_info, all_destination_info, rsync_only, source, run, xml_call>>
sharing == <<subject_sharing, experiment_sharing, assessor_sharing>>
counters == <<subj_failed_count, exp_failed_count, scan_failed_count, assess_failed_count>>

\* an exception leaves Migration.run
Raise(e) == pc' = "failed" /\ error' = e /\ UNCHANGED <<pair, cur, walk, step>>

Here == walk[step]
\* the destination listing may still miss a resource created just now
MayBeStale == subj_failed_count + exp_failed_count + assess_failed_count < MaxStale
\* the loops of _create_resources move on to the next listed resource
Advance ==
  /\ step' = step + 1
  /\ pc' = IF step + 1 > Len(walk) THEN "end_pair" ELSE "walk"
  /\ UNCHANGED <<pair, cur, walk, error>>

Post(kind, project, source_id, label, element) ==
  [kind |-> kind, project |-> project, source_id |-> source_id, label |-> label,
   ID |-> IF "ID" \in DOMAIN element.attrib THEN element.attrib.ID ELSE None,
   pair |-> pair, run |-> run]

\* the guard of every create call: the label is not in the destination listing
ShouldCreateAlways(exists) == TRUE
ShouldCreate(exists) == ~exists

\* the two branches of "_collect_sharing_info"
collect_shared_without_append(sharing_info, destination_id, source_id) ==
  [sharing_info EXCEPT !.source_id = source_id]
collect_shared(sharing_info, destination_id, source_id) ==
  [sharing_info EXCEPT !.projects = Append(@, destination_id), !.source_id = source_id]
collect_owner(sharing_info, destination_id, source_id, label) ==
  [sharing_info EXCEPT !.owner = destination_id, !.label = label, !.source_id = source_id]

\* run: the loop over the pairs ends before _apply_sharing
AfterPairInsideLoop(n) == "apply_sharing"
AfterPair(n) == IF n + 1 <= NumMappers THEN "begin_pair" ELSE "apply_sharing"

\* the datatypes a server may have enabled: elementName as prefix and name
Datatypes == {[prefix |-> "xnat", name |-> "mrSessionData"],
              [prefix |-> "xnat", name |-> "ctSessionData"],
              [prefix |-> "xdat", name |-> "user"]}

\* check_datatypes_matching: the error raised, if any
check_datatypes_matching(source_types, destination_types) ==
  LET enabled_datatypes_source == {d \in source_types : d.prefix # "xdat"}
      enabled_datatypes_dest == {d \in destination_types : d.prefix # "xdat"}
  IN IF enabled_datatypes_source \subseteq enabled_datatypes_dest
       THEN None ELSE "ValueError"

\* Migration._check_datatypes, the first call of run
CheckDatatypesLogged ==
  /\ pc = "run"
  /\ \E source_types \in SUBSET Datatypes, destination_types \in SUBSET Datatypes :
       /\ error' = check_datatypes_matching(source_types, destination_types)
       /\ pc' = "create_users"
       /\ UNCHANGED <<pair, cur, walk, step>>
  /\ UNCHANGED <<config, id_map, sharing, counters, destination, posts, grants,
                 apply_sharing_calls>>
CheckDatatypes ==
  /\ pc = "run"
  /\ \E source_types \in SUBSET Datatypes, destination_types \in SUBSET Datatypes :
       LET e == check_datatypes_matching(source_types, destination_types)
       IN IF e = None
            THEN pc' = "create_users" /\ UNCHANGED <<pair, cur, walk, step, error>>
            ELSE Raise(e)
  /\ UNCHANGED <<config, id_map, sharing, counters, destination, posts, grants,
                 apply_sharing_calls>>

\* Migration._create_users: the profiles of the two servers agree ("same"),
\* differ in an id ("id_mismatch"), or the source has a user the destination
\* lacks ("missing"), whose username has no method remove_suffix
CreateUsers ==
  /\ pc = "create_users"
  /\ \E profiles \in {"same", "id_mismatch", "missing"} :
       CASE profiles = "same" ->
              pc' = "begin_pair" /\ UNCHANGED <<pair, cur, walk, step, error>>
         [] profiles = "id_mismatch" -> Raise("ValueError")
         [] profiles = "missing" -> Raise("AttributeError")
  /\ UNCHANGED <<config, id_map, sharing, counters, destination, posts, grants,
                 apply_sharing_calls>>

\* run: the head of the loop body: the context of the pair and the two
\* _get_resource_metadata exports
BeginPairResettingCounters ==
  /\ pc = "begin_pair"
  /\ \E ok \in BOOLEAN :
       IF ok THEN /\ pc' = "create_project"
                  /\ cur' = [mapper |-> pair, source_info |-> all_source_info[pair],
                             destination_info |-> all_destination_info[pair]]
                  /\ UNCHANGED <<pair, walk, step, error>>
             ELSE /\ pc' = "failed" /\ error' = "XNATResponseError"
                  /\ cur' = [mapper |-> pair, source_info |-> all_source_info[pair],
                             destination_info |-> all_destination_info[pair]]
                  /\ UNCHANGED <<pair, walk, step>>
  /\ subj_failed_count' = 0 /\ exp_failed_count' = 0
  /\ scan_failed_count' = 0 /\ assess_failed_count' = 0
  /\ UNCHANGED <<config, id_map, sharing, destination, posts, grants,
                 apply_sharing_calls>>
BeginPair ==
  /\ pc = "begin_pair"
  /\ \E ok \in BOOLEAN :
       IF ok THEN /\ pc' = "create_project"
                  /\ cur' = [mapper |-> pair, source_info |-> all_source_info[pair],
                             destination_info |-> all_destination_info[pair]]
                  /\ UNCHANGED <<pair, walk, step, error>>
             ELSE /\ pc' = "failed" /\ error' = "XNATResponseError"
                  /\ cur' = [mapper |-> pair, source_info |-> all_source_info[pair],
                             destination_info |-> all_destination_info[pair]]
                  /\ UNCHANGED <<pair, walk, step>>
  /\ UNCHANGED <<config, id_map, sharing, counters, destination, posts, grants,
                 apply_sharing_calls>>

\* Migration._create_project
CreateProjectWithoutIdMap ==
  /\ pc = "create_project"
  /\ \E env \in Responses \ {"unsupported", "stale", "stale_twice"} :
       LET fetch_ok == env # "fetch_error"
           uris == UrisOf(env, cur.source_info)
           post_ok == env # "post_error"
           dst == cur.destination_info.id
           root == ProjectXml(cur.source_info.id, uris)
           mapped == map_xml(id_map[cur.mapper], cur.source_info, cur.destination_info,
                             root, "project")
           exists == dst \in destination.projects
       IN IF ~fetch_ok THEN
            Raise("XNATResponseError") /\ UNCHANGED <<id_map, destination, posts>>
          ELSE IF mapped.error # None THEN
            Raise(mapped.error) /\ UNCHANGED <<id_map, destination, posts>>
          ELSE IF ShouldCreate(exists) /\ ~post_ok THEN
            /\ Raise("XNATResponseError")
            /\ posts' = Append(posts, Post("project", dst, cur.source_info.id, dst, mapped.element))
            /\ UNCHANGED <<id_map, destination>>
          ELSE
            /\ posts' = IF ShouldCreate(exists)
                          THEN Append(posts, Post("project", dst, cur.source_info.id, dst,
                                                  mapped.element))
                          ELSE posts
            /\ destination' = [destination EXCEPT !.projects = @ \cup {dst}]
            /\ id_map' = id_map
            /\ pc' = "rsync"
            /\ UNCHANGED <<pair, cur, walk, step, error>>
  /\ UNCHANGED <<config, sharing, counters, grants, apply_sharing_calls>>
CreateProject ==
  /\ pc = "create_project"
  /\ \E env \in Responses \ {"unsupported", "stale", "stale_twice"} :
       LET fetch_ok == env # "fetch_error"
           uris == UrisOf(env, cur.source_info)
           post_ok == env # "post_error"
           dst == cur.destination_info.id
           root == ProjectXml(cur.source_info.id, uris)
           mapped == map_xml(id_map[cur.mapper], cur.source_info, cur.destination_info,
                             root, "project")
           exists == dst \in destination.projects
       IN IF ~fetch_ok THEN
            Raise("XNATResponseError") /\ UNCHANGED <<id_map, destination, posts>>
          ELSE IF mapped.error # None THEN
            Raise(mapped.error) /\ UNCHANGED <<id_map, destination, posts>>
          ELSE IF ShouldCreate(exists) /\ ~post_ok THEN
            /\ Raise("XNATResponseError")
            /\ posts' = Append(posts, Post("project", dst, cur.source_info.id, dst, mapped.element))
            /\ UNCHANGED <<id_map, destination>>
          ELSE
            /\ posts' = IF ShouldCreate(exists)
                          THEN Append(posts, Post("project", dst, cur.source_info.id, dst,
                                                  mapped.element))
                          ELSE posts
            /\ destination' = [destination EXCEPT !.projects = @ \cup {dst}]
            /\ id_map' = [id_map EXCEPT ![cur.mapper] =
                            update_id_map(@, cur.source_info.id, dst, "project")]
            /\ pc' = "rsync"
            /\ UNCHANGED <<pair, cur, walk, step, error>>
  /\ UNCHANGED <<config, sharing, counters, grants, apply_sharing_calls>>

\* _create_resources after the rsync command: with rsync_only it returns,
\* otherwise it walks the listings of the source project
ResourcesToWalkAlways(src, p) == WalkOrder(src, p)
ResourcesToWalk(src, p) == IF rsync_only THEN <<>> ELSE WalkOrder(src, p)

\* _create_resources: the rsync command and the datatypes listing
RsyncFailureLogged ==
  /\ pc = "rsync"
  /\ \E ok \in BOOLEAN :
       /\ walk' = ResourcesToWalk(source, cur.source_info.id)
       /\ step' = 1
       /\ pc' = IF Len(walk') = 0 THEN "end_pair" ELSE "walk"
       /\ error' = IF ok THEN error ELSE "RuntimeError"
       /\ UNCHANGED <<pair, cur>>
  /\ UNCHANGED <<config, id_map, sharing, counters, destination, posts, grants,
                 apply_sharing_calls>>
Rsync ==
  /\ pc = "rsync"
  /\ \E ok \in BOOLEAN :
       IF ok THEN /\ walk' = ResourcesToWalk(source, cur.source_info.id)
                  /\ step' = 1
                  /\ pc' = IF Len(walk') = 0 THEN "end_pair" ELSE "walk"
                  /\ UNCHANGED <<pair, cur, error>>
             ELSE Raise("RuntimeError")
  /\ UNCHANGED <<config, id_map, sharing, counters, destination, posts, grants,
                 apply_sharing_calls>>

\* Migration._create_subject
CreateSubject ==
  /\ pc = "walk" /\ Here.kind = "subject"
  /\ \E env \in {r \in Responses \ {"unsupported", "stale_twice"} :
                    r = "stale" => MayBeStale} :
       LET fetch_ok == env # "fetch_error"
           uris == UrisOf(env, cur.source_info)
           post_ok == env # "post_error"
           visible == env # "stale"
           i == Here.i
           subject == [id |-> SubjectId(i), label |-> source.subject[i].label]
           dst == cur.destination_info.id
           root == SubjectXml(source, i, uris)
           sharing_info == DictGet(subject_sharing, subject.label,
                                   [owner |-> None, projects |-> <<>>,
                                    source_id |-> subject.id, label |-> None])
           mapped == map_xml(id_map[cur.mapper], cur.source_info, cur.destination_info,
                             root, "subject")
           exists == \E d \in destination.subjects :
                       d.project = dst /\ d.label = subject.label
           created == [project |-> dst, label |-> subject.label, id |-> NewId(destination)]
           found == IF exists
                      THEN CHOOSE d \in destination.subjects :
                             d.project = dst /\ d.label = subject.label
                      ELSE created
           post == Post("subject", dst, subject.id, subject.label, mapped.element)
       IN IF ~fetch_ok THEN
            /\ Raise("XNATResponseError")
            /\ UNCHANGED <<subject_sharing, id_map, destination, posts, subj_failed_count>>
          ELSE IF root.attrib.project # cur.source_info.id THEN
            \* this project is not the owner of the resource
            /\ subject_sharing' =
                 DictSet(subject_sharing, subject.label,
                         collect_shared(sharing_info, dst, subject.id))
            /\ Advance
            /\ UNCHANGED <<id_map, destination, posts, subj_failed_count>>
          ELSE
            /\ subject_sharing' =
                 DictSet(subject_sharing, subject.label,
                         collect_owner(sharing_info, dst, subject.id, subject.label))
            /\ IF mapped.error # None THEN
                 /\ Raise(mapped.error)
                 /\ UNCHANGED <<id_map, destination, posts, subj_failed_count>>
               ELSE IF dst \notin destination.projects THEN
                 /\ Raise("KeyError")
                 /\ UNCHANGED <<id_map, destination, posts, subj_failed_count>>
               ELSE IF ShouldCreate(exists) /\ ~post_ok THEN
                 /\ Raise("XNATResponseError")
                 /\ posts' = Append(posts, post)
                 /\ UNCHANGED <<id_map, destination, subj_failed_count>>
               ELSE
                 /\ posts' = IF ShouldCreate(exists) THEN Append(posts, post) ELSE posts
                 /\ destination' =
                      IF ~ShouldCreate(exists) THEN destination
                      ELSE [destination EXCEPT !.subjects = @ \cup {created},
                                               !.next = @ + 1]
                 /\ IF exists \/ visible
                      THEN /\ id_map' = [id_map EXCEPT ![cur.mapper] =
                                           update_id_map(@, subject.id, found.id, "subject")]
                           /\ UNCHANGED subj_failed_count
                      ELSE /\ subj_failed_count' = subj_failed_count + 1
                           /\ UNCHANGED id_map
                 /\ Advance
  /\ UNCHANGED <<config, experiment_sharing, assessor_sharing, exp_failed_count,
                 scan_failed_count, assess_failed_count, grants, apply_sharing_calls>>

\* _create_resources: the datatype check of the experiment, then
\* Migration._create_experiment
CreateExperiment ==
  /\ pc = "walk" /\ Here.kind = "experiment"
  /\ \E env \in {r \in Responses : r \in {"stale", "stale_twice"} => MayBeStale} :
       LET supported == env # "unsupported"
           fetch_ok == env # "fetch_error"
           uris == UrisOf(env, cur.source_info)
           post_ok == env # "post_error"
           visible == env \notin {"stale", "stale_twice"}
           visible_retry == env # "stale_twice"
           i == Here.i
           j == Here.j
           subject == [id |-> SubjectId(i), label |-> source.subject[i].label]
           experiment == [id |-> ExperimentId(i, j), label |-> ExperimentLabel(i, j)]
           dst == cur.destination_info.id
           root == ExperimentXml(source, i, j, uris)
           sharing_info == DictGet(experiment_sharing, experiment.id,
                                   [owner |-> None, projects |-> <<>>,
                                    source_id |-> None, label |-> None])
           mapped == map_xml(id_map[cur.mapper], cur.source_info, cur.destination_info,
                             root, "experiment")
           parent == \E d \in destination.subjects :
                       d.project = dst /\ d.label = subject.label
           Same(d) == d.project = dst /\ d.subject = subject.label
                      /\ d.label = experiment.label
           exists == \E d \in destination.experiments : Same(d)
           created == [project |-> dst, subject |-> subject.label,
                       label |-> experiment.label, id |-> NewId(destination)]
           found == IF exists THEN CHOOSE d \in destination.experiments : Same(d)
                    ELSE created
           post == Post("experiment", dst, experiment.id, experiment.label, mapped.element)
       IN IF ~supported THEN
            /\ Raise("RuntimeError")
            /\ UNCHANGED <<experiment_sharing, id_map, destination, posts, exp_failed_count>>
          ELSE IF ~fetch_ok THEN
            /\ Raise("XNATResponseError")
            /\ UNCHANGED <<experiment_sharing, id_map, destination, posts, exp_failed_count>>
          ELSE IF root.attrib.project # cur.source_info.id THEN
            \* this project is not the owner of the resource
            /\ experiment_sharing' =
                 DictSet(experiment_sharing, experiment.label,
                         collect_shared(sharing_info, dst, experiment.id))
            /\ Advance
            /\ UNCHANGED <<id_map, destination, posts, exp_failed_count>>
          ELSE
            /\ experiment_sharing' =
                 DictSet(experiment_sharing, experiment.label,
                         collect_owner(sharing_info, dst, experiment.id, experiment.label))
            /\ IF mapped.error # None THEN
                 /\ Raise(mapped.error)
                 /\ UNCHANGED <<id_map, destination, posts, exp_failed_count>>
               ELSE IF ~parent THEN
                 /\ Raise("KeyError")
                 /\ UNCHANGED <<id_map, destination, posts, exp_failed_count>>
               ELSE IF ShouldCreate(exists) /\ ~post_ok THEN
                 /\ Raise("XNATResponseError")
                 /\ posts' = Append(posts, post)
                 /\ UNCHANGED <<id_map, destination, exp_failed_count>>
               ELSE
                 /\ posts' = IF ShouldCreate(exists) THEN Append(posts, post) ELSE posts
                 /\ destination' =
                      IF ~ShouldCreate(exists) THEN destination
                      ELSE [destination EXCEPT !.experiments = @ \cup {created},
                                               !.next = @ + 1]
                 /\ IF exists \/ visible THEN
                      /\ id_map' = [id_map EXCEPT ![cur.mapper] =
                                      update_id_map(@, experiment.id, found.id, "experiment")]
                      /\ UNCHANGED exp_failed_count
                      /\ Advance
                    ELSE
                      \* except (KeyError, AttributeError): count and read again
                      /\ exp_failed_count' = exp_failed_count + 1
                      /\ IF visible_retry
                           THEN /\ id_map' = [id_map EXCEPT ![cur.mapper] =
                                                update_id_map(@, experiment.id, found.id,
                                                              "experiment")]
                                /\ Advance
                           ELSE Raise("KeyError") /\ UNCHANGED id_map
  /\ UNCHANGED <<config, subject_sharing, assessor_sharing, subj_failed_count,
                 scan_failed_count, assess_failed_count, grants, apply_sharing_calls>>

\* Migration._create_scan
CreateScanAssigningId ==
  /\ pc = "walk" /\ Here.kind = "scan"
  /\ \E env \in Responses \ {"unsupported", "stale", "stale_twice"} :
       LET fetch_ok == env # "fetch_error"
           uris == UrisOf(env, cur.source_info)
           post_ok == env # "post_error"
           i == Here.i
           j == Here.j
           subject == [id |-> SubjectId(i), label |-> source.subject[i].label]
           experiment == [id |-> ExperimentId(i, j), label |-> ExperimentLabel(i, j)]
           scan == [id |-> ScanId(Here.k)]
           dst == cur.destination_info.id
           root == ScanXml(source, i, j, Here.k, uris)
           exp_root == ExperimentXml(source, i, j, <<>>)
           mapped == map_xml(id_map[cur.mapper], cur.source_info, cur.destination_info,
                             root, "scan")
           parent == \E d \in destination.experiments :
                       /\ d.project = dst /\ d.subject = subject.label
                       /\ d.label = experiment.label
           created == [project |-> dst, subject |-> subject.label,
                       experiment |-> experiment.label, id |-> scan.id]
           exists == created \in destination.scans
           post == Post("scan", dst, scan.id, experiment.label, mapped.element)
       IN IF ~fetch_ok THEN
            Raise("XNATResponseError") /\ UNCHANGED <<id_map, destination, posts>>
          ELSE IF exp_root.attrib.project # cur.source_info.id THEN
            \* this project does not own the experiment: skip the scan
            Advance /\ UNCHANGED <<id_map, destination, posts>>
          ELSE IF mapped.error # None THEN
            Raise(mapped.error) /\ UNCHANGED <<id_map, destination, posts>>
          ELSE IF ~parent THEN
            Raise("KeyError") /\ UNCHANGED <<id_map, destination, posts>>
          ELSE IF ShouldCreate(exists) /\ ~post_ok THEN
            /\ Raise("XNATResponseError")
            /\ posts' = Append(posts, post)
            /\ UNCHANGED <<id_map, destination>>
          ELSE
            /\ posts' = IF ShouldCreate(exists) THEN Append(posts, post) ELSE posts
            /\ destination' = [destination EXCEPT !.scans = @ \cup {created}]
            /\ id_map' = [id_map EXCEPT ![cur.mapper] =
                            update_id_map(@, scan.id, NewId(destination), "scan")]
            /\ Advance
  /\ UNCHANGED <<config, sharing, counters, grants, apply_sharing_calls>>
CreateScan ==
  /\ pc = "walk" /\ Here.kind = "scan"
  /\ \E env \in Responses \ {"unsupported", "stale", "stale_twice"} :
       LET fetch_ok == env # "fetch_error"
           uris == UrisOf(env, cur.source_info)
           post_ok == env # "post_error"
           i == Here.i
           j == Here.j
           subject == [id |-> SubjectId(i), label |-> source.subject[i].label]
           experiment == [id |-> ExperimentId(i, j), label |-> ExperimentLabel(i, j)]
           scan == [id |-> ScanId(Here.k)]
           dst == cur.destination_info.id
           root == ScanXml(source, i, j, Here.k, uris)
           exp_root == ExperimentXml(source, i, j, <<>>)
           mapped == map_xml(id_map[cur.mapper], cur.source_info, cur.destination_info,
                             root, "scan")
           parent == \E d \in destination.experiments :
                       /\ d.project = dst /\ d.subject = subject.label
                       /\ d.label = experiment.label
           created == [project |-> dst, subject |-> subject.label,
                       experiment |-> experiment.label, id |-> scan.id]
           exists == created \in destination.scans
           post == Post("scan", dst, scan.id, experiment.label, mapped.element)
       IN IF ~fetch_ok THEN
            Raise("XNATResponseError") /\ UNCHANGED <<id_map, destination, posts>>
          ELSE IF exp_root.attrib.project # cur.source_info.id THEN
            \* this project does not own the experiment: skip the scan
            Advance /\ UNCHANGED <<id_map, destination, posts>>
          ELSE IF mapped.error # None THEN
            Raise(mapped.error) /\ UNCHANGED <<id_map, destination, posts>>
          ELSE IF ~parent THEN
            Raise("KeyError") /\ UNCHANGED <<id_map, destination, posts>>
          ELSE IF ShouldCreate(exists) /\ ~post_ok THEN
            /\ Raise("XNATResponseError")
            /\ posts' = Append(posts, post)
            /\ UNCHANGED <<id_map, destination>>
          ELSE
            /\ posts' = IF ShouldCreate(exists) THEN Append(posts, post) ELSE posts
            /\ destination' = [destination EXCEPT !.scans = @ \cup {created}]
            \* scan IDs are preserved; update_id_map of two strings cannot raise
            /\ id_map' = [id_map EXCEPT ![cur.mapper] =
                            update_id_map(@, scan.id, scan.id, "scan")]
            /\ Advance
  /\ UNCHANGED <<config, sharing, counters, grants, apply_sharing_calls>>

\* Migration._create_assessor
CreateAssessorCountingShared ==
  /\ pc = "walk" /\ Here.kind = "assessor"
  /\ \E env \in {r \in Responses \ {"unsupported"} :
                    r \in {"stale", "stale_twice"} => MayBeStale} :
       LET fetch_ok == env # "fetch_error"
           uris == UrisOf(env, cur.source_info)
           post_ok == env # "post_error"
           visible == env \notin {"stale", "stale_twice"}
           visible_retry == env # "stale_twice"
           i == Here.i
           j == Here.j
           subject == [id |-> SubjectId(i), label |-> source.subject[i].label]
           experiment == [id |-> ExperimentId(i, j), label |-> ExperimentLabel(i, j)]
           assessor == [id |-> AssessorId(i, j, Here.k), label |-> AssessorLabel(i, j, Here.k)]
           dst == cur.destination_info.id
           root == AssessorXml(source, i, j, Here.k, uris)
           sharing_info == DictGet(assessor_sharing, assessor.id,
                                   [owner |-> None, projects |-> <<>>,
                                    source_id |-> None, label |-> None])
           mapped == map_xml(id_map[cur.mapper], cur.source_info, cur.destination_info,
                             root, "assessor")
           parent == \E d \in destination.experiments :
                       /\ d.project = dst /\ d.subject = subject.label
                       /\ d.label = experiment.label
           Same(d) == /\ d.project = dst /\ d.subject = subject.label
                      /\ d.experiment = experiment.label /\ d.label = assessor.label
           exists == \E d \in destination.assessors : Same(d)
           created == [project |-> dst, subject |-> subject.label,
                       experiment |-> experiment.label, label |-> assessor.label,
                       id |-> NewId(destination)]
           found == IF exists THEN CHOOSE d \in destination.assessors : Same(d)
                    ELSE created
           post == Post("assessor", dst, assessor.id, assessor.label, mapped.element)
       IN IF ~fetch_ok THEN
            /\ Raise("XNATResponseError")
            /\ UNCHANGED <<assessor_sharing, id_map, destination, posts, assess_failed_count>>
          ELSE IF root.attrib.project # cur.source_info.id THEN
            /\ assessor_sharing' =
                 DictSet(assessor_sharing, assessor.label,
                         collect_shared(sharing_info, dst, assessor.id))
            /\ Advance
            /\ assess_failed_count' = assess_failed_count + 1
            /\ UNCHANGED <<id_map, destination, posts>>
          ELSE
            /\ assessor_sharing' =
                 DictSet(assessor_sharing, assessor.label,
                         collect_owner(sharing_info, dst, assessor.id, assessor.label))
            /\ IF mapped.error # None THEN
                 /\ Raise(mapped.error)
                 /\ UNCHANGED <<id_map, destination, posts, assess_failed_count>>
               ELSE IF ~parent THEN
                 /\ Raise("KeyError")
                 /\ UNCHANGED <<id_map, destination, posts, assess_failed_count>>
               ELSE IF ShouldCreate(exists) /\ ~post_ok THEN
                 /\ Raise("XNATResponseError")
                 /\ posts' = Append(posts, post)
                 /\ UNCHANGED <<id_map, destination, assess_failed_count>>
               ELSE
                 /\ posts' = IF ShouldCreate(exists) THEN Append(posts, post) ELSE posts
                 /\ destination' =
                      IF ~ShouldCreate(exists) THEN destination
                      ELSE [destination EXCEPT !.assessors = @ \cup {created},
                                               !.next = @ + 1]
                 /\ IF exists \/ visible THEN
                      /\ id_map' = [id_map EXCEPT ![cur.mapper] =
                                      update_id_map(@, assessor.id, found.id, "assessor")]
                      /\ UNCHANGED assess_failed_count
                      /\ Advance
                    ELSE
                      /\ assess_failed_count' = assess_failed_count + 1
                      /\ IF visible_retry
                           THEN /\ id_map' = [id_map EXCEPT ![cur.mapper] =
                                                update_id_map(@, assessor.id, found.id,
                                                              "assessor")]
                                /\ Advance
                           ELSE Raise("KeyError") /\ UNCHANGED id_map
  /\ UNCHANGED <<config, subject_sharing, experiment_sharing, subj_failed_count,
                 exp_failed_count, scan_failed_count, grants, apply_sharing_calls>>
CreateAssessor ==
  /\ pc = "walk" /\ Here.kind = "assessor"
  /\ \E env \in {r \in Responses \ {"unsupported"} :
                    r \in {"stale", "stale_twice"} => MayBeStale} :
       LET fetch_ok == env # "fetch_error"
           uris == UrisOf(env, cur.source_info)
           post_ok == env # "post_error"
           visible == env \notin {"stale", "stale_twice"}
           visible_retry == env # "stale_twice"
           i == Here.i
           j == Here.j
           subject == [id |-> SubjectId(i), label |-> source.subject[i].label]
           experiment == [id |-> ExperimentId(i, j), label |-> ExperimentLabel(i, j)]
           assessor == [id |-> AssessorId(i, j, Here.k), label |-> AssessorLabel(i, j, Here.k)]
           dst == cur.destination_info.id
           root == AssessorXml(source, i, j, Here.k, uris)
           sharing_info == DictGet(assessor_sharing, assessor.id,
                                   [owner |-> None, projects |-> <<>>,
                                    source_id |-> None, label |-> None])
           mapped == map_xml(id_map[cur.mapper], cur.source_info, cur.destination_info,
                             root, "assessor")
           parent == \E d \in destination.experiments :
                       /\ d.project = dst /\ d.subject = subject.label
                       /\ d.label = experiment.label
           Same(d) == /\ d.project = dst /\ d.subject = subject.label
                      /\ d.experiment = experiment.label /\ d.label = assessor.label
           exists == \E d \in destination.assessors : Same(d)
           created == [project |-> dst, subject |-> subject.label,
                       experiment |-> experiment.label, label |-> assessor.label,
                       id |-> NewId(destination)]
           found == IF exists THEN CHOOSE d \in destination.assessors : Same(d)
                    ELSE created
           post == Post("assessor", dst, assessor.id, assessor.label, mapped.element)
       IN IF ~fetch_ok THEN
            /\ Raise("XNATResponseError")
            /\ UNCHANGED <<assessor_sharing, id_map, destination, posts, assess_failed_count>>
          ELSE IF root.attrib.project # cur.source_info.id THEN
            \* this project is not the owner of the resource
            /\ assessor_sharing' =
                 DictSet(assessor_sharing, assessor.label,
                         collect_shared(sharing_info, dst, assessor.id))
            /\ Advance
            /\ UNCHANGED <<id_map, destination, posts, assess_failed_count>>
          ELSE
            /\ assessor_sharing' =
                 DictSet(assessor_sharing, assessor.label,
                         collect_owner(sharing_info, dst, assessor.id, assessor.label))
            /\ IF mapped.error # None THEN
                 /\ Raise(mapped.error)
                 /\ UNCHANGED <<id_map, destination, posts, assess_failed_count>>
               ELSE IF ~parent THEN
                 /\ Raise("KeyError")
                 /\ UNCHANGED <<id_map, destination, posts, assess_failed_count>>
               ELSE IF ShouldCreate(exists) /\ ~post_ok THEN
                 /\ Raise("XNATResponseError")
                 /\ posts' = Append(posts, post)
                 /\ UNCHANGED <<id_map, destination, assess_failed_count>>
               ELSE
                 /\ posts' = IF ShouldCreate(exists) THEN Append(posts, post) ELSE posts
                 /\ destination' =
                      IF ~ShouldCreate(exists) THEN destination
                      ELSE [destination EXCEPT !.assessors = @ \cup {created},
                                               !.next = @ + 1]
                 /\ IF exists \/ visible THEN
                      /\ id_map' = [id_map EXCEPT ![cur.mapper] =
                                      update_id_map(@, assessor.id, found.id, "assessor")]
                      /\ UNCHANGED assess_failed_count
                      /\ Advance
                    ELSE
                      \* except (KeyError, AttributeError): count and read again
                      /\ assess_failed_count' = assess_failed_count + 1
                      /\ IF visible_retry
                           THEN /\ id_map' = [id_map EXCEPT ![cur.mapper] =
                                                update_id_map(@, assessor.id, found.id,
                                                              "assessor")]
                                /\ Advance
                           ELSE Raise("KeyError") /\ UNCHANGED id_map
  /\ UNCHANGED <<config, subject_sharing, experiment_sharing, subj_failed_count,
                 exp_failed_count, scan_failed_count, grants, apply_sharing_calls>>

\* run: the lists given to zip(..., strict=True) have the length of the mappers
SameLength == Len(all_source_info) = Len(all_destination_info)

\* run: the tail of the loop body (_set_project_configs, _export_id_map,
\* _refresh_catalogues) and the step to the next pair
FinishPairDuringWalk ==
  /\ pc \in {"walk", "end_pair"}
  /\ \E ok \in BOOLEAN :
       IF ~ok THEN Raise("RuntimeError")
       ELSE IF pair + 1 > NumMappers /\ ~SameLength THEN
         \* zip(..., strict=True) finds one list longer than the mappers
         Raise("ValueError")
       ELSE /\ pair' = pair + 1
            /\ pc' = AfterPair(pair)
            /\ UNCHANGED <<cur, walk, step, error>>
  /\ UNCHANGED <<config, id_map, sharing, counters, destination, posts, grants,
                 apply_sharing_calls>>
FinishPair ==
  /\ pc = "end_pair"
  /\ \E ok \in BOOLEAN :
       IF ~ok THEN Raise("RuntimeError")
       ELSE IF pair + 1 > NumMappers /\ ~SameLength THEN
         \* zip(..., strict=True) finds one list longer than the mappers
         Raise("ValueError")
       ELSE /\ pair' = pair + 1
            /\ pc' = AfterPair(pair)
            /\ UNCHANGED <<cur, walk, step, error>>
  /\ UNCHANGED <<config, id_map, sharing, counters, destination, posts, grants,
                 apply_sharing_calls>>

\* XMLMapper.get_destination_id: the entry update_id_map stored for source_id,
\* or KeyError
get_destination_id(idm, source_id, map_type) ==
  LET partition == ids_to_map(map_type)
  IN IF source_id \in DOMAIN idm[partition]
       THEN [error |-> None, id |-> idm[partition][source_id]]
       ELSE [error |-> "KeyError", id |-> None]

\* _apply_sharing, one table: the PUT requests in the order they are issued
SharingRequests(table, map_type) ==
  Concat([n \in 1..Len(table) |->
            LET label == table[n].key
                sharing_info == table[n].value
                owner == sharing_info.owner
                holders == {m \in 1..NumMappers :
                              get_destination_id(id_map[m], sharing_info.source_id,
                                                 map_type).error = None}
                \* the first mapper that knows the source identifier
                first == CHOOSE m \in holders : \A o \in holders : m <= o
                dest_id == get_destination_id(id_map[first], sharing_info.source_id,
                                              map_type).id
            IN IF holders = {} THEN <<>>
               ELSE [x \in 1..Len(sharing_info.projects) |->
                       [kind |-> map_type, owner |-> owner, id |-> dest_id,
                        project |-> sharing_info.projects[x], label |-> label]]],
         Len(table))

\* Migration._apply_sharing; a rejected request is logged and skipped
ApplySharingUntilRejected ==
  /\ pc = "apply_sharing"
  /\ LET requests == SharingRequests(subject_sharing, "subject")
                     \o SharingRequests(experiment_sharing, "experiment")
                     \o SharingRequests(assessor_sharing, "assessor")
     IN \E rejected \in SUBSET (1..Len(requests)) :
          /\ Cardinality(rejected) <= MaxGrantFailures
          /\ LET last == IF rejected = {} THEN Len(requests)
                         ELSE CHOOSE n \in rejected : \A o \in rejected : n <= o
             IN grants' = grants \o [n \in 1..last |->
                                       [request |-> requests[n], ok |-> n \notin rejected]]
  /\ apply_sharing_calls' = apply_sharing_calls + 1
  /\ pc' = "done"
  /\ UNCHANGED <<config, pair, cur, walk, step, id_map, sharing, counters, destination,
                 posts, error>>
ApplySharing ==
  /\ pc = "apply_sharing"
  /\ LET requests == SharingRequests(subject_sharing, "subject")
                     \o SharingRequests(experiment_sharing, "experiment")
                     \o SharingRequests(assessor_sharing, "assessor")
     IN \E rejected \in SUBSET (1..Len(requests)) :
          /\ Cardinality(rejected) <= MaxGrantFailures
          /\ grants' = grants \o [n \in 1..Len(requests) |->
                                    [request |-> requests[n], ok |-> n \notin rejected]]
  /\ apply_sharing_calls' = apply_sharing_calls + 1
  /\ pc' = "done"
  /\ UNCHANGED <<config, pair, cur, walk, step, id_map, sharing, counters, destination,
                 posts, error>>

Next ==
  \/ CheckDatatypes
  \/ CreateUsers
  \/ BeginPair
  \/ CreateProject
  \/ Rsync
  \/ CreateSubject
  \/ CreateExperiment
  \/ CreateScan
  \/ CreateAssessor
  \/ FinishPair
  \/ ApplySharing

Spec == Init /\ [][Next]_vars

(***************************************************************************)
(* Migration.run called again on the same Migration object, against the    *)
(* destination the completed first call left behind.                       *)
(***************************************************************************)
RunAgain ==
  /\ pc = "done"
  /\ run < MaxRuns
  /\ run' = run + 1
  /\ pc' = "run"
  /\ pair' = 1
  /\ walk' = <<>>
  /\ step' = 0
  /\ UNCHANGED <<all_source_info, all_destination_info, rsync_only, source, cur, id_map, sharing,
                 counters, destination, posts, grants, error, apply_sharing_calls,
                 xml_call>>

NextRerun == Next \/ RunAgain

SpecRerun == Init /\ [][NextRerun]_vars

(***************************************************************************)
(* XMLMapper.map_xml as a function of its arguments: a mapper of the pair  *)
(* A -> DA with some id_map is given some record.                          *)
(***************************************************************************)
RefTexts == {SubjectId(1), ExperimentId(1, 1), ScanId(1)}
RefChoices ==
  UNION {[tags -> RefTexts] :
           tags \in {d \in SUBSET (DOMAIN tags_to_remap) : Cardinality(d) <= MaxRefs}}
IdMapChoices ==
  {[t \in XnatType |->
      CASE t = "subject" -> sub
        [] t = "experiment" -> exp
        [] t = "scan" -> scn
        [] OTHER -> EmptyDict] :
     sub \in {EmptyDict, [k \in {SubjectId(1)} |-> "X1"]},
     exp \in {EmptyDict, [k \in {ExperimentId(1, 1)} |-> "X2"]},
     scn \in {EmptyDict, [k \in {ScanId(1)} |-> ScanId(1)]}}

InitXml ==
  /\ all_source_info = <<SourceInfo("A")>>
  /\ all_destination_info = <<DestinationInfo("A")>>
  /\ rsync_only = FALSE
  /\ source = None
  /\ pc = "map_xml"
  /\ pair = 1
  /\ cur = [mapper |-> 1, source_info |-> all_source_info[1],
            destination_info |-> all_destination_info[1]]
  /\ walk = <<>>
  /\ step = 0
  /\ id_map = [m \in 1..1 |-> [t \in XnatType |-> EmptyDict]]
  /\ subject_sharing = <<>>
  /\ experiment_sharing = <<>>
  /\ assessor_sharing = <<>>
  /\ subj_failed_count = 0
  /\ exp_failed_count = 0
  /\ scan_failed_count = 0
  /\ assess_failed_count = 0
  /\ destination = EmptyDestination
  /\ posts = <<>>
  /\ grants = <<>>
  /\ error = None
  /\ run = 1
  /\ apply_sharing_calls = 0
  /\ \E refs \in RefChoices, idm \in IdMapChoices,
        resource_type \in {"project", "subject", "experiment", "scan", "assessor"} :
       xml_call = [element |-> Element("xnat:Record",
                                       [ID |-> "id", project |-> "A", label |-> "label"],
                                       {}, refs, <<>>),
                   id_map |-> idm, resource_type |-> resource_type, result |-> None,
                   after |-> None]

\* the call mapper.map_xml(element, resource_type): result is what the call
\* returns or raises, after is the content of the argument after the call
MapXml ==
  /\ pc = "map_xml"
  /\ xml_call' = [xml_call EXCEPT
                    !.result = map_xml(xml_call.id_map, cur.source_info,
                                       cur.destination_info, xml_call.element,
                                       xml_call.resource_type),
                    !.after = map_xml_in_place(xml_call.id_map, cur.source_info,
                                               cur.destination_info, xml_call.element,
                                               xml_call.resource_type)]
  /\ pc' = "map_xml_done"
  /\ UNCHANGED <<all_source_info, all_destination_info, rsync_only, source, pair, cur, walk, step,
                 id_map, sharing, counters, destination, posts, grants, error, run,
                 apply_sharing_calls>>

NextXml == MapXml

SpecXml == InitXml /\ [][NextXml]_vars

(***************************************************************************)
(* XMLMapper.map_xml on records that differ in their tag, their            *)
(* xnat:modality children and their URI attributes.                        *)
(***************************************************************************)
SeqsUpTo(S, n) == UNION {[1..m -> S] : m \in 0..n}
ModalityTexts == {"MR", "CT", "US", "PT", "NM", "XA", ""}
UriTokens == {"src_archive", "A", "file"}
UriChoices == SeqsUpTo(UriTokens, MaxUriLen) \ {<<>>}

InitRecord ==
  /\ all_source_info = <<SourceInfo("A")>>
  /\ all_destination_info = <<DestinationInfo("A")>>
  /\ rsync_only = FALSE
  /\ source = None
  /\ pc = "map_xml"
  /\ pair = 1
  /\ cur = [mapper |-> 1, source_info |-> all_source_info[1],
            destination_info |-> all_destination_info[1]]
  /\ walk = <<>>
  /\ step = 0
  /\ id_map = [m \in 1..1 |-> [t \in XnatType |-> EmptyDict]]
  /\ subject_sharing = <<>>
  /\ experiment_sharing = <<>>
  /\ assessor_sharing = <<>>
  /\ subj_failed_count = 0
  /\ exp_failed_count = 0
  /\ scan_failed_count = 0
  /\ assess_failed_count = 0
  /\ destination = EmptyDestination
  /\ posts = <<>>
  /\ grants = <<>>
  /\ error = None
  /\ run = 1
  /\ apply_sharing_calls = 0
  /\ \E tag \in {"xnat:imageScanData", "xnat:MRScan"},
        modalities \in SeqsUpTo(ModalityTexts, MaxModalities),
        uris \in SeqsUpTo(UriChoices, MaxUris),
        refs \in {EmptyDict, [t \in {"xnat:image_session_ID"} |-> ExperimentId(1, 1)]},
        resource_type \in {"scan", "experiment"} :
       xml_call = [element |-> [Element(tag,
                                        [ID |-> ScanId(1), project |-> "A"],
                                        {}, refs, uris)
                                  EXCEPT !.modalities = modalities],
                   id_map |-> id_map[1], resource_type |-> resource_type,
                   result |-> None, after |-> None]

SpecRecord == InitRecord /\ [][NextXml]_vars

(***************************************************************************)
(* Properties.                                                             *)
(***************************************************************************)
NoRecord == [owner |-> None, projects |-> <<>>, source_id |-> None, label |-> None]
BothPairs == all_source_info = <<SourceInfo("A"), SourceInfo("B")>>
\* the loop over the pairs has ended and has walked the source projects
WalksDone == ~rsync_only /\ pc \in {"apply_sharing", "done"}

\* the resource a step of the walk is about
OwnerAt(st) ==
  CASE st.kind = "subject" -> source.subject[st.i].owner
    [] st.kind = "assessor" -> source.assessor[<<st.i, st.j, st.k>>].owner
    [] OTHER -> source.experiment[<<st.i, st.j>>].owner
LabelAt(st) ==
  CASE st.kind = "subject" -> source.subject[st.i].label
    [] st.kind = "assessor" -> AssessorLabel(st.i, st.j, st.k)
    [] OTHER -> ExperimentLabel(st.i, st.j)
TableOf(kind) ==
  CASE kind = "subject" -> subject_sharing
    [] kind = "assessor" -> assessor_sharing
    [] OTHER -> experiment_sharing
\* the sharing table of a kind after the step
TableAfter(kind) ==
  CASE kind = "subject" -> subject_sharing'
    [] kind = "assessor" -> assessor_sharing'
    [] OTHER -> experiment_sharing'
NonOwnedStep ==
  /\ pc = "walk"
  /\ Here.kind \in {"subject", "experiment", "assessor"}
  /\ OwnerAt(Here) # cur.source_info.id

\* the sharing requests issued for a resource
GrantsFor(kind, label) ==
  {n \in 1..Len(grants) : grants[n].request.kind = kind /\ grants[n].request.label = label}

\* C1: a creation step for a subject, experiment or assessor that the walked
\* project does not own issues no POST and changes nothing but the sharing
\* record of that resource, to which it appends the destination project.
C1_NonOwnedStepOnlyAppends ==
  [][(NonOwnedStep /\ pc' # "failed") =>
       /\ posts' = posts
       /\ UNCHANGED <<id_map, destination, counters>>
       /\ LET old == DictGet(TableOf(Here.kind), LabelAt(Here), NoRecord)
              new == DictGet(TableAfter(Here.kind), LabelAt(Here), NoRecord)
          IN /\ new.owner = old.owner
             /\ new.projects = Append(old.projects, cur.destination_info.id)]_vars

\* the scenario of C2: subject i is owned by A and shared into B, and the
\* run walks A, then B
OwnedByASharedIntoB(i) ==
  BothPairs /\ source.subject[i].owner = "A" /\ source.subject[i].shared
SubjectRecordOfA(i) ==
  LET r == DictGet(subject_sharing, source.subject[i].label, NoRecord)
  IN r.owner = "DA" /\ r.projects = <<"DB">>

C3_ExperimentsAccumulateLikeSubjects ==
  WalksDone /\ BothPairs =>
    /\ \A x \in ExperimentIdx :
         (source.experiment[x].owner = "A" /\ source.experiment[x].shared) =>
           LET r == DictGet(experiment_sharing, ExperimentLabel(x[1], x[2]), NoRecord)
           IN r.owner = "DA" /\ r.projects = <<"DB">>
    /\ \A x \in AssessorIdx :
         (source.assessor[x].owner = "A" /\ source.assessor[x].shared) =>
           LET r == DictGet(assessor_sharing, AssessorLabel(x[1], x[2], x[3]), NoRecord)
           IN r.owner = "DA" /\ r.projects = <<"DB">>

\* the request that shares the resource of the given kind and label, created
\* by the walk of B under source_id, with the project walked before
GrantedToA(kind, label, source_id) ==
  source_id \in DOMAIN id_map[2][ids_to_map(kind)] =>
    \E n \in 1..Len(grants) :
      grants[n].request = [kind |-> kind, owner |-> "DB",
                           id |-> id_map[2][ids_to_map(kind)][source_id],
                           project |-> "DA", label |-> label]

\* C4: a resource that is shared into A and owned by B, so that the pair in
\* which it is shared is walked before the pair that owns it, still gets its
\* sharing request, naming the owner DB and the owner's destination identifier.
C4_SharingIndependentOfPairOrder ==
  pc = "done" /\ BothPairs =>
    /\ \A i \in SubjectIdx :
         (source.subject[i].owner = "B" /\ source.subject[i].shared) =>
           GrantedToA("subject", source.subject[i].label, SubjectId(i))
    /\ \A x \in ExperimentIdx :
         (source.experiment[x].owner = "B" /\ source.experiment[x].shared) =>
           GrantedToA("experiment", ExperimentLabel(x[1], x[2]), ExperimentId(x[1], x[2]))
    /\ \A x \in AssessorIdx :
         (source.assessor[x].owner = "B" /\ source.assessor[x].shared) =>
           GrantedToA("assessor", AssessorLabel(x[1], x[2], x[3]),
                      AssessorId(x[1], x[2], x[3]))

C6_GrantsComeFromOwnedRecords ==
  \A n \in 1..Len(grants) :
    LET g == grants[n].request
        r == DictGet(TableOf(g.kind), g.label, NoRecord)
    IN /\ g.owner # None
       /\ r.owner = g.owner
       /\ \E x \in 1..Len(r.projects) : r.projects[x] = g.project
       /\ \E m \in 1..NumMappers :
            /\ all_destination_info[m].id = g.owner
            /\ r.source_id \in DOMAIN id_map[m][ids_to_map(g.kind)]
            /\ id_map[m][ids_to_map(g.kind)][r.source_id] = g.id

\* every entry of every id_map is still there after the step, with its value
EntriesKept ==
  \A m \in DOMAIN id_map : \A t \in XnatType : \A k \in DOMAIN id_map[m][t] :
    k \in DOMAIN id_map'[m][t] /\ id_map'[m][t][k] = id_map[m][t][k]

\* C7: the id_map is write-once: no step, of any resource kind and of any
\* run, removes an entry or replaces its destination identifier by another.
C7_IdMapWriteOnce == [][EntriesKept]_vars

\* a second run has written the entries of an experiment and of its assessor,
\* both in the experiment partition, again
C7_Witness ==
  /\ run = 2 /\ pc = "done"
  /\ \E x \in AssessorIdx :
       {ExperimentId(x[1], x[2]), AssessorId(x[1], x[2], x[3])}
         \subseteq DOMAIN id_map[1]["experiment"]

\* C8: map_xml replaces the text of every reference tag by the entry the
\* id_map holds for it in the partition of its kind; when a text has no
\* entry the call raises ValueError.
C8_ReferencesResolvedOrFatal ==
  pc = "map_xml_done" =>
    LET refs == xml_call.element.refs
        Entries(t) == xml_call.id_map[tags_to_remap[t]]
        result == xml_call.result
    IN IF \A t \in DOMAIN refs : refs[t] \in DOMAIN Entries(t)
         THEN /\ result.error = None
              /\ DOMAIN result.element.refs = DOMAIN refs
              /\ \A t \in DOMAIN refs : result.element.refs[t] = Entries(t)[refs[t]]
         ELSE result.error = "ValueError"

C8_Witness ==
  /\ pc = "map_xml_done"
  /\ xml_call.result.error = None
  /\ Cardinality(DOMAIN xml_call.element.refs) = 2

\* C9: when the creation step of an experiment begins, the id_map of the
\* pair has an entry for its subject; when the creation step of a scan or
\* an assessor begins, it has an entry for its experiment.
C9_ParentMappedBeforeChild ==
  pc = "walk" =>
    CASE Here.kind = "experiment" ->
           SubjectId(Here.i) \in DOMAIN id_map[cur.mapper]["subject"]
      [] Here.kind \in {"scan", "assessor"} ->
           ExperimentId(Here.i, Here.j) \in DOMAIN id_map[cur.mapper]["experiment"]
      [] OTHER -> TRUE

\* C10 as stated: a second run against the destination the first run left
\* issues no POST and leaves the id_map as it was after the first run.
C10_SecondRunChangesNothing ==
  [][run >= 2 => (posts' = posts /\ id_map' = id_map)]_vars

\* C10 amended: a second run issues no POST and keeps every id_map entry the
\* first run recorded; it can add the entry of a subject whose destination
\* identifier the first run failed to read back.
C10_SecondRunPostsNothingKeepsEntries ==
  [][run >= 2 => (posts' = posts /\ EntriesKept)]_vars

C10_Witness == run = 2 /\ pc = "done" /\ Len(posts) >= 3

\* the step is the creation step of a resource of one of the kinds
StepOf(kinds) == pc = "walk" /\ Here.kind \in kinds
\* the step issues a POST that the destination rejects
PostRejected == posts' # posts /\ destination' = destination
\* the step ends Migration.run with the exception e
Raises(e) == pc' = "failed" /\ error' = e

\* C11: a failed create call in the creation step of a subject increments
\* subj_failed_count and does not end the walk: the sibling subjects are
\* still processed.
C11_SubjectFailureCountedNotFatal ==
  [][(StepOf({"subject"}) /\ PostRejected) =>
       (subj_failed_count' = subj_failed_count + 1 /\ pc' # "failed")]_vars

\* C12: when the readback of a new experiment or assessor misses, so that the
\* failure counter of its kind is incremented, no exception leaves the step
\* and the walk goes on with the next resource.
C12_ReadbackMissStaysLocal ==
  [][(StepOf({"experiment", "assessor"})
        /\ exp_failed_count' + assess_failed_count'
             = exp_failed_count + assess_failed_count + 1) =>
       (pc' # "failed" /\ step' = step + 1)]_vars

\* C13: a run over several pairs does not end by an error raised while a
\* pair that is not the last one, and whose project exists on the
\* destination, is processed: the later pairs are still walked.
C13_FatalErrorAbortsOnlyPair ==
  ~(/\ pc = "failed"
    /\ pair < NumMappers
    /\ cur.destination_info.id \in destination.projects)

\* C14: an experiment whose datatype the destination does not list is
\* skipped: its step issues no POST and does not end Migration.run with the
\* RuntimeError of the datatype check.
C14_UnsupportedTypeSkipped ==
  [][StepOf({"experiment"}) => ~Raises("RuntimeError")]_vars

\* C15: a scan whose file URI lies outside the source archive is not posted
\* and does not stop the walk: the step of a scan never ends Migration.run
\* with the ValueError of the transformation.
C15_ForeignUriScanStaysLocal ==
  [][StepOf({"scan"}) => ~Raises("ValueError")]_vars

SharedKinds == {"subject", "experiment", "assessor"}
\* every record of the table that has an owner has the same owner in after
OwnersKept(table, after) ==
  \A n \in 1..Len(table) :
    table[n].value.owner # None =>
      DictGet(after, table[n].key, NoRecord).owner = table[n].value.owner

\* C16: once the owner of a sharing record is set, no step changes it to
\* another project or resets it to None.
C16_OwnerNeverChanges ==
  [][/\ OwnersKept(subject_sharing, subject_sharing')
     /\ OwnersKept(experiment_sharing, experiment_sharing')
     /\ OwnersKept(assessor_sharing, assessor_sharing')]_vars

\* C17: for a sharing record whose owner is None when _apply_sharing runs, no
\* sharing request is issued.
C17_NullOwnerNotGranted ==
  pc = "done" =>
    \A kind \in SharedKinds : \A n \in 1..Len(TableOf(kind)) :
      TableOf(kind)[n].value.owner = None =>
        GrantsFor(kind, TableOf(kind)[n].key) = {}

C19_NothingUnderNonOwnedSubject ==
  [][(StepOf({"experiment", "scan", "assessor"})
        /\ source.subject[Here.i].owner # cur.source_info.id) =>
       (posts' = posts /\ id_map' = id_map /\ ~Raises("ValueError"))]_vars

\* C20: under an experiment the walked project does not own, no scan and no
\* assessor is transformed, created or entered into the id_map.
C20_NothingUnderNonOwnedExperiment ==
  [][(StepOf({"scan", "assessor"})
        /\ source.experiment[<<Here.i, Here.j>>].owner # cur.source_info.id) =>
       (posts' = posts /\ id_map' = id_map /\ ~Raises("ValueError"))]_vars

\* a finished call of map_xml
Returned == pc = "map_xml_done" /\ xml_call.result.error = None
Failed == pc = "map_xml_done" /\ xml_call.result.error # None
source_root == <<cur.source_info.archive_path, cur.source_info.id>>
destination_root == <<cur.destination_info.archive_path, cur.destination_info.id>>
HasPrefix(uri, root) == OccursAt(uri, root, 1)

\* C21: a file location is rewritten only when the source root is its
\* prefix, and then the root is replaced by the destination root; a location
\* the source root is not a prefix of makes the call fail with ValueError and
\* keeps its value, also when the source root occurs later inside it.
C21_RootReplacedOnlyAsPrefix ==
  (pc = "map_xml_done" /\ xml_call.element.refs = EmptyDict) =>
    LET uris == xml_call.element.uris
    IN IF \A n \in 1..Len(uris) : HasPrefix(uris[n], source_root)
         THEN /\ xml_call.result.error = None
              /\ \A n \in 1..Len(uris) :
                   xml_call.result.element.uris[n] =
                     destination_root \o SubSeq(uris[n], Len(source_root) + 1, Len(uris[n]))
         ELSE /\ xml_call.result.error = "ValueError"
              /\ \A n \in 1..Len(uris) :
                   ~HasPrefix(uris[n], source_root) => xml_call.after.uris[n] = uris[n]

\* C22: map_xml leaves the record it is given unchanged, when it returns and
\* when it fails part-way, and changes neither the id_map, nor the sharing
\* tables, nor the failure counters.
C22_MapXmlLeavesInputUnchanged ==
  [][(pc = "map_xml" /\ pc' = "map_xml_done") =>
       (/\ xml_call'.after = xml_call.element
        /\ id_map' = id_map
        /\ sharing' = sharing
        /\ counters' = counters)]_vars

\* C23: scan ids are preserved: every entry of a scan partition maps an id
\* to itself, and the record posted for a scan carries the id of the source
\* scan.
C23_ScanIdsPreserved ==
  /\ \A m \in DOMAIN id_map : \A k \in DOMAIN id_map[m]["scan"] :
       id_map[m]["scan"][k] = k
  /\ \A n \in 1..Len(posts) :
       posts[n].kind = "scan" => posts[n].ID = posts[n].source_id
C23_Witness ==
  /\ \E n \in 1..Len(posts) : posts[n].kind = "scan" /\ posts[n].ID = ScanId(1)
  /\ \E m \in DOMAIN id_map : ScanId(1) \in DOMAIN id_map[m]["scan"]

\* C24: the project step issues a create call exactly when the destination
\* project id is absent from the destination, and in both cases the project
\* partition of the pair's id_map afterwards maps the source project id to
\* the destination project id.
C24_ProjectPostedIffAbsent ==
  [][(pc = "create_project") =>
       LET dst == cur.destination_info.id
       IN /\ (posts' # posts) => dst \notin destination.projects
          /\ (pc' = "rsync") =>
               /\ (posts' # posts) <=> (dst \notin destination.projects)
               /\ cur.source_info.id \in DOMAIN id_map'[cur.mapper]["project"]
               /\ id_map'[cur.mapper]["project"][cur.source_info.id] = dst]_vars
\* the project step of a second run has found the project and passed
C24_Witness ==
  /\ run = 2 /\ pc = "rsync"
  /\ cur.destination_info.id \in destination.projects
  /\ id_map[cur.mapper]["project"][cur.source_info.id] = cur.destination_info.id

\* C25: the record map_xml returns has its project attribute equal to the
\* destination project id, and has no ID attribute unless the kind is
\* project, where ID is the destination project id, or scan, where ID is
\* unchanged.
C25_ProjectSetIdStripped ==
  Returned =>
    LET attrib == xml_call.result.element.attrib
        kind == xml_call.resource_type
        dst == cur.destination_info.id
    IN /\ "project" \in DOMAIN attrib /\ attrib.project = dst
       /\ kind = "project" => ("ID" \in DOMAIN attrib /\ attrib.ID = dst)
       /\ kind = "scan" => ("ID" \in DOMAIN attrib /\ attrib.ID = xml_call.element.attrib.ID)
       /\ kind \notin {"project", "scan"} => "ID" \notin DOMAIN attrib
C25_Witness ==
  /\ Returned
  /\ xml_call.resource_type = "subject"
  /\ "ID" \in DOMAIN xml_call.element.attrib
  /\ xml_call.element.attrib.project # cur.destination_info.id

\* the modality table of the specification
SubtypeOf == [MR |-> "xnat:MRScan", CT |-> "xnat:CTScan", US |-> "xnat:USScan",
              PT |-> "xnat:PETScan", NM |-> "xnat:NMScan"]
Fallback == "xnat:OtherDicomScan"
\* the non-empty modality texts of the record given to map_xml, in order
Recorded == SelectSeq(xml_call.element.modalities, LAMBDA m : m # "")
RecordedSet == {Recorded[n] : n \in 1..Len(Recorded)}

\* C26: the subtype given to an imaging-scan record is a function of the set
\* of its non-empty modality codes: a set of exactly one code of the table
\* gives the subtype of the table, any other set gives the fallback; a
\* record that is not an imaging-scan record keeps its type.
C26_SubtypeFromModalitySet ==
  Returned =>
    LET tag == xml_call.result.element.tag
    IN IF xml_call.element.tag = "xnat:imageScanData"
         THEN IF Cardinality(RecordedSet) = 1 /\ RecordedSet \subseteq DOMAIN SubtypeOf
                THEN \A m \in RecordedSet : tag = SubtypeOf[m]
                ELSE tag = Fallback
         ELSE tag = xml_call.element.tag

\* C26 as the code has it: the subtype is a function of the list of
\* non-empty xnat:modality children: exactly one such child, with a code of
\* the table, gives the subtype of the table; no such child, more than one
\* (also when they carry the same code), or one with a code outside the
\* table gives the fallback; a record that is not an imaging-scan record
\* keeps its type.
C26_SubtypeFromModalityList ==
  Returned =>
    LET tag == xml_call.result.element.tag
    IN IF xml_call.element.tag = "xnat:imageScanData"
         THEN IF Len(Recorded) = 1 /\ Recorded[1] \in DOMAIN SubtypeOf
                THEN tag = SubtypeOf[Recorded[1]]
                ELSE tag = Fallback
         ELSE tag = xml_call.element.tag
\* the same code recorded twice gives the fallback
C26_Witness ==
  /\ Returned
  /\ xml_call.element.tag = "xnat:imageScanData"
  /\ xml_call.element.modalities = <<"PT", "PT">>
  /\ xml_call.result.element.tag = Fallback

\* the create call a step has just issued is for a resource below the project
PostsBelowProject == posts' # posts /\ posts'[Len(posts')].kind # "project"

\* C27: the file sync of a pair runs once, after the project step of the
\* pair has passed and before any subject step of the pair; when the sync or
\* the project step fails, no subject, experiment, scan or assessor of the
\* pair is created.
C27_RsyncOnceBetweenProjectAndSubjects ==
  [][/\ (pc' = "create_project") => (pc = "begin_pair")
     /\ (pc' = "rsync") =>
          (pc = "create_project" /\ cur.destination_info.id \in destination'.projects)
     /\ (pc = "rsync") => (pc' \in {"walk", "end_pair", "failed"})
     /\ (pc' = "walk" /\ pc # "walk") => (pc = "rsync" /\ step' = 1)
     /\ PostsBelowProject => (pc = "walk" /\ error = None)
     /\ (pc \in {"create_project", "rsync"} /\ pc' = "failed") =>
          \A n \in 1..Len(posts') :
            (posts'[n].pair = pair /\ posts'[n].run = run) => posts'[n].kind = "project"]_vars
\* the sync of the only pair has failed after the project was created
C27_Witness ==
  /\ pc = "failed" /\ error = "RuntimeError" /\ step = 0
  /\ Len(posts) = 1 /\ posts[1].kind = "project"
  /\ cur.destination_info.id \in destination.projects

\* C28: when the source has a datatype outside xdat enabled that the
\* destination lacks, the run fails at its first step with ValueError: user
\* creation is not entered, and no create call, no grant request and no
\* id_map entry has been made.
C28_DatatypeMismatchFailsFirst ==
  [][(pc = "run" /\ error' # None) =>
       (/\ Raises("ValueError")
        /\ posts' = posts /\ grants' = grants /\ destination' = destination
        /\ id_map' = id_map /\ sharing' = sharing
        /\ \A n \in 1..Len(posts) : posts[n].run < run)]_vars
\* the datatype check of a second run has failed
C28_Witness ==
  /\ pc = "failed" /\ error = "ValueError" /\ run = 2
  /\ \A n \in 1..Len(posts) : posts[n].run = 1
  /\ posts # <<>>

\* the subjects created whose readback missed: posted, without id_map entry
UnmappedSubjectPosts ==
  {n \in 1..Len(posts) :
     /\ posts[n].kind = "subject"
     /\ posts[n].source_id \notin DOMAIN id_map[posts[n].pair]["subject"]}
\* the same after a step
UnmappedSubjectPostsAfter ==
  {n \in 1..Len(posts') :
     /\ posts'[n].kind = "subject"
     /\ posts'[n].source_id \notin DOMAIN id_map'[posts'[n].pair]["subject"]}

\* C29: the four failure counters never decrease and are not reset when the
\* run moves to the next pair, so that they count over all pairs: while no
\* exception has ended the run, subj_failed_count is the number of subjects
\* of all pairs whose readback missed, and scan_failed_count is 0 because
\* the scan step can record no failure.
C29_CountersAccumulateOverPairs ==
  [][/\ subj_failed_count' >= subj_failed_count
     /\ exp_failed_count' >= exp_failed_count
     /\ scan_failed_count' >= scan_failed_count
     /\ assess_failed_count' >= assess_failed_count
     /\ (pair' # pair \/ cur' # cur) => counters' = counters
     /\ (error' = None) =>
          /\ subj_failed_count' = Cardinality(UnmappedSubjectPostsAfter)
          /\ scan_failed_count' = 0]_vars
\* a run over two pairs has ended with a failure counted in the first pair
C29_Witness ==
  /\ pc = "done" /\ BothPairs
  /\ subj_failed_count = 1
  /\ \E n \in UnmappedSubjectPosts : posts[n].pair = 1

NoDuplicates(seq) == \A a, b \in 1..Len(seq) : seq[a] = seq[b] => a = b

\* C30: the participants of every sharing record form a set: no destination
\* project id occurs twice in them, also after the same pair has been walked
\* twice, so that at most one grant is requested per record and participant.
C30_ParticipantsAreASet ==
  /\ \A table \in {subject_sharing, experiment_sharing, assessor_sharing} :
       \A n \in 1..Len(table) : NoDuplicates(table[n].value.projects)
  /\ apply_sharing_calls <= 1 =>
       \A g, h \in 1..Len(grants) :
         (/\ grants[g].request.kind = grants[h].request.kind
          /\ grants[g].request.label = grants[h].request.label
          /\ grants[g].request.project = grants[h].request.project) => g = h

\* the context of pair n: its mapper and its two ProjectInfo
ContextOf(n) == [mapper |-> n, source_info |-> all_source_info[n],
                 destination_info |-> all_destination_info[n]]

\* C31: the pairs are walked one after another: the run moves to the next
\* pair only from the end of the loop body of the current one, after the
\* last step of its walk, and while a pair is walked the context is the
\* mapper, source and destination of that pair, which every create call and
\* every id_map write uses.
C31_PairsWalkedOneAfterAnother ==
  [][/\ (pair' # pair) => (pc = "end_pair" /\ step > Len(walk) /\ pair' = pair + 1)
     /\ (pc' = "begin_pair" /\ pc # "begin_pair") => (pc \in {"create_users", "end_pair"})
     /\ (pc' \in {"create_project", "rsync", "walk", "end_pair"}) => (cur' = ContextOf(pair'))
     /\ \A m \in DOMAIN id_map : (id_map'[m] # id_map[m]) => (m = pair /\ cur = ContextOf(pair))
     /\ (posts' # posts) =>
          /\ posts'[Len(posts')].pair = pair
          /\ posts'[Len(posts')].project = all_destination_info[pair].id
          /\ cur = ContextOf(pair)]_vars
\* the second pair is walked after the first has created resources
C31_Witness ==
  /\ pc = "walk" /\ pair = 2 /\ cur = ContextOf(2)
  /\ \E n \in 1..Len(posts) : posts[n].pair = 1 /\ posts[n].kind = "subject"
  /\ \E n \in 1..Len(posts) : posts[n].pair = 2 /\ posts[n].kind = "subject"

IsPrefix(a, b) == Len(a) <= Len(b) /\ SubSeq(b, 1, Len(a)) = a
\* every record of the table still has, in after, the participants it had
ParticipantsKept(table, after) ==
  \A n \in 1..Len(table) :
    IsPrefix(table[n].value.projects, DictGet(after, table[n].key, NoRecord).projects)

\* C32: no update of the id_map or of a sharing table is lost: the steps of
\* the walk run one at a time, and every step keeps every id_map entry,
\* every participant appended to a sharing record and every owner assigned
\* to one, so that all of them are in the tables when the walk ends.
C32_NoUpdateLost ==
  [][/\ EntriesKept
     /\ ParticipantsKept(subject_sharing, subject_sharing')
     /\ ParticipantsKept(experiment_sharing, experiment_sharing')
     /\ ParticipantsKept(assessor_sharing, assessor_sharing')
     /\ OwnersKept(subject_sharing, subject_sharing')
     /\ OwnersKept(experiment_sharing, experiment_sharing')
     /\ OwnersKept(assessor_sharing, assessor_sharing')]_vars

\* C33: a creation step for a subject, experiment or assessor the walked
\* project does not own leaves the id_map of every mapper, the four failure
\* counters and the sharing tables of the two other kinds unchanged.
C33_NonOwnedStepFrame ==
  [][NonOwnedStep =>
       (/\ id_map' = id_map
        /\ counters' = counters
        /\ Here.kind # "subject" => subject_sharing' = subject_sharing
        /\ Here.kind # "experiment" => experiment_sharing' = experiment_sharing
        /\ Here.kind # "assessor" => assessor_sharing' = assessor_sharing)]_vars
\* the non-owner branch has run for a subject, an experiment and an assessor
C33_Witness ==
  /\ \E n \in 1..Len(subject_sharing) : subject_sharing[n].value.projects # <<>>
  /\ \E n \in 1..Len(experiment_sharing) : experiment_sharing[n].value.projects # <<>>
  /\ \E n \in 1..Len(assessor_sharing) : assessor_sharing[n].value.projects # <<>>

AssessorIds == {AssessorId(i, j, k) : i \in 1..NSubjects, j \in 1..NExperiments,
                                      k \in 1..NAssessors}

\* C34: the id_map entries of assessors are stored in the experiment
\* partition: only the partitions project, subject, experiment and scan of
\* a mapper ever hold an entry, the assessor partition holds none, and the
\* source id of an assessor is found in the experiment partition only.
C34_AssessorsInExperimentPartition ==
  \A m \in DOMAIN id_map :
    /\ \A t \in XnatType :
         id_map[m][t] # EmptyDict => t \in {"project", "subject", "experiment", "scan"}
    /\ id_map[m]["assessor"] = EmptyDict
    /\ \A a \in AssessorIds : \A t \in XnatType \ {"experiment"} :
         a \notin DOMAIN id_map[m][t]
    /\ \A n \in 1..Len(posts) :
         (posts[n].kind = "assessor" /\ posts[n].pair = m /\ pc = "done") =>
           posts[n].source_id \in DOMAIN id_map[m]["experiment"]
C34_Witness ==
  \E m \in DOMAIN id_map :
    /\ AssessorId(1, 1, 1) \in DOMAIN id_map[m]["experiment"]
    /\ ExperimentId(1, 1) \in DOMAIN id_map[m]["experiment"]
    /\ id_map[m]["assessor"] = EmptyDict

\* C35: with rsync_only the walk of every pair ends after the project step
\* and the file sync: no resource below a project is created, the subject,
\* experiment and scan partitions of every id_map and the three sharing
\* tables stay empty, the failure counters stay 0 and _apply_sharing requests
\* no grant.
C35_RsyncOnlyStopsAfterSync ==
  rsync_only =>
    /\ pc # "walk" /\ walk = <<>>
    /\ \A n \in 1..Len(posts) : posts[n].kind = "project"
    /\ \A m \in DOMAIN id_map : \A t \in {"subject", "experiment", "scan"} :
         id_map[m][t] = EmptyDict
    /\ subject_sharing = <<>> /\ experiment_sharing = <<>> /\ assessor_sharing = <<>>
    /\ counters = <<0, 0, 0, 0>>
    /\ grants = <<>>
\* a run with rsync_only over two pairs has ended
C35_Witness ==
  /\ rsync_only /\ pc = "done" /\ NumMappers = 2
  /\ Len(posts) = 2 /\ apply_sharing_calls = 1
  /\ \A m \in DOMAIN id_map : id_map[m]["project"] # EmptyDict

\* C36: when the list of source projects and the list of destination
\* projects differ in length, the run is rejected before any pair is walked:
\* no create call is issued on the destination.
C36_UnequalListsRejectedFirst ==
  ~SameLength => (posts = <<>> /\ destination = EmptyDestination /\ pc # "walk")

====
